---- MODULE Spec2Model ----
(***************************************************************************)
(* Model of the two scripts of the repository:                             *)
(*   register_assets_sample.py  the asset registrar / pipeline submitter   *)
(*   score_sample.py            the batch scorer                           *)
(* The remote platform (MLClient) and the file system are the environment: *)
(* every remote call either returns or raises, a "get" of a resource that  *)
(* does not exist always raises.                                           *)
(***************************************************************************)
EXTENDS Integers, Sequences, FiniteSets, TLC

VARIABLES
    \* ---- registrar (register_assets_sample.py) ----
    config,      \* the mapping returned by load_config
    pc,          \* position of main() in register_assets_sample.py
    error,       \* the exception that ended main(), "none" when none did
    calls,       \* the remote calls issued so far, in order, with their outcome
    remote,      \* the state of the platform workspace
    remote0,     \* the state of the platform workspace when main() started
    platformJob, \* the status of the training job on the platform
    local,       \* the local variables of main()
    \* ---- scorer (score_sample.py) ----
    args,        \* what the three path arguments point to
    spc,         \* position of main() in score_sample.py
    serror,      \* the exception that ended the scorer, "none" when none did
    files,       \* the list `files`
    results,     \* the list `results`
    reads,       \* the paths handed to pd.read_csv, in order
    predicts,    \* the number of model.predict calls
    outfs,       \* the output location: directory created?, files written
    console      \* the lines printed that the claims mention

regVars == <<config, pc, error, calls, remote, remote0, platformJob, local>>
scoVars == <<args, spc, serror, files, results, reads, predicts, outfs, console>>
vars == <<config, pc, error, calls, remote, remote0, platformJob, local,
          args, spc, serror, files, results, reads, predicts, outfs, console>>

(***************************************************************************)
(* Bounds of the model.                                                    *)
(***************************************************************************)
MaxMissing == 1     \* configuration keys that may be missing at once
MaxChildren == 2    \* child jobs the platform lists for the training job
MaxEntries == 3     \* entries of the input directory
MaxRows == 2        \* rows of one CSV file

(***************************************************************************)
(* Strings are sequences of one-character strings, so that lower(),        *)
(* "in" and endswith() are computed and not assumed.                       *)
(***************************************************************************)
UpperAlpha == <<"A","B","C","D","E","F","G","H","I","J","K","L","M",
                "N","O","P","Q","R","S","T","U","V","W","X","Y","Z">>
LowerAlpha == <<"a","b","c","d","e","f","g","h","i","j","k","l","m",
                "n","o","p","q","r","s","t","u","v","w","x","y","z">>

LowerChar(c) ==
    IF \E i \in 1..Len(UpperAlpha) : UpperAlpha[i] = c
    THEN LowerAlpha[CHOOSE i \in 1..Len(UpperAlpha) : UpperAlpha[i] = c]
    ELSE c

\* str.lower()
Lower(s) == [i \in 1..Len(s) |-> LowerChar(s[i])]

\* sub in s
Contains(s, sub) ==
    \E i \in 0..(Len(s) - Len(sub)) : SubSeq(s, i + 1, i + Len(sub)) = sub

\* s.endswith(suffix)
EndsWith(s, suffix) ==
    /\ Len(s) >= Len(suffix)
    /\ SubSeq(s, Len(s) - Len(suffix) + 1, Len(s)) = suffix

Min(S) == CHOOSE x \in S : \A y \in S : x <= y

(***************************************************************************)
(*                         THE ASSET REGISTRAR                             *)
(***************************************************************************)
RequiredKeys == {"subscription_id", "resource_group", "workspace_name",
                 "cluster", "experiment", "datasource_name"}

\* the value config.json gives a key
ConfigValue == [subscription_id |-> "sub-1", resource_group |-> "rg-1",
                workspace_name |-> "ws-1", cluster |-> "cpu-cluster",
                experiment |-> "exp", datasource_name |-> "ds-1"]

\* the mappings load_config may return: at most MaxMissing keys are missing
Configs ==
    {[k \in RequiredKeys \ m |-> ConfigValue[k]] :
        m \in {s \in SUBSET RequiredKeys : Cardinality(s) <= MaxMissing}}

\* config[key] raises KeyError when the key is absent
HasKeys(cfg, keys) == keys \subseteq DOMAIN cfg

JobStatuses == {"Running", "Completed", "Failed", "Canceled"}
TerminalStatuses == {"Completed", "Failed", "Canceled"}

\* display names the platform may give a child job
DisplayNames == {<<"t","r","a","i","n","_","j","o","b">>,
                 <<"m","y","_","T","r","a","i","n","_","J","o","b","_","2">>,
                 <<"s","c","o","r","e","_","j","o","b">>,
                 <<"t","r","a","i","n">>}

\* the lists jobs.list may return: child i has name i
ChildLists ==
    UNION {[1..n -> DisplayNames] : n \in 0..MaxChildren}

ChildJobs(names) == [i \in 1..Len(names) |-> [name |-> i, display_name |-> names[i]]]

TrainJobNeedle == <<"t","r","a","i","n","_","j","o","b">>

NoJob == [name |-> 0, display_name |-> <<>>]

\* variant of SelectTrainJob that matches the display name case-sensitively
SelectTrainJob_case_sensitive(child_jobs) ==
    IF Len(child_jobs) = 0
    THEN [raised |-> TRUE, job |-> NoJob]
    ELSE LET matching == {i \in 1..Len(child_jobs) :
                            Contains(child_jobs[i].display_name, TrainJobNeedle)}
         IN  IF matching = {}
             THEN [raised |-> FALSE, job |-> child_jobs[1]]
             ELSE [raised |-> FALSE, job |-> child_jobs[Min(matching)]]

\* next((j for j in child_jobs if "train_job" in j.display_name.lower()), child_jobs[0])
\* the default child_jobs[0] is evaluated before next() is called
SelectTrainJob(child_jobs) ==
    IF Len(child_jobs) = 0
    THEN [raised |-> TRUE, job |-> NoJob]
    ELSE LET matching == {i \in 1..Len(child_jobs) :
                            Contains(Lower(child_jobs[i].display_name), TrainJobNeedle)}
         IN  IF matching = {}
             THEN [raised |-> FALSE, job |-> child_jobs[1]]
             ELSE [raised |-> FALSE, job |-> child_jobs[Min(matching)]]

\* f"azureml://jobs/{train_job.name}/outputs/artifacts/paths/model/"
ModelPath(job_name) ==
    [prefix |-> "azureml://jobs/", job |-> job_name,
     suffix |-> "/outputs/artifacts/paths/model/"]

\* f"{experiment}-endpoint", f"{experiment}-deployment", f"{experiment}-model"
EndpointName(cfg) == <<cfg["experiment"], "-endpoint">>
DeploymentName(cfg) == <<cfg["experiment"], "-deployment">>
ModelName(cfg) == <<cfg["experiment"], "-model">>

NoName == <<>>

\* a remote get: raises when the resource is absent, may raise when it exists
GetOutcomes(exists) == IF exists THEN {"ok", "raise"} ELSE {"raise"}
\* any other remote call
CallOutcomes == {"ok", "raise"}

Call(op, res) == [op |-> op, res |-> res]

\* the platform workspaces main() may start against: env and deployment count
\* the versions registered, default is the endpoint's default deployment
Remotes ==
    {[env |-> e, components |-> c, models |-> <<>>, pipeline_components |-> 0,
      endpoint |-> ep.endpoint, default |-> ep.default, deployment |-> ep.deployment] :
        e \in 0..1, c \in SUBSET {"train", "score"},
        ep \in {[endpoint |-> FALSE, default |-> NoName, deployment |-> 0],
                [endpoint |-> TRUE, default |-> NoName, deployment |-> 0],
                [endpoint |-> TRUE, default |-> NoName, deployment |-> 1],
                [endpoint |-> TRUE, default |-> DeploymentName(ConfigValue),
                 deployment |-> 1]}}

Local0 == [env |-> 0, components |-> {}, data |-> FALSE, job_status |-> "none",
           child_jobs |-> <<>>, train_job |-> NoJob, model |-> 0,
           pipeline_component |-> 0]

RegIdle ==
    /\ config = [k \in RequiredKeys |-> ConfigValue[k]]
    /\ pc = "idle"
    /\ error = "none"
    /\ calls = <<>>
    /\ remote = CHOOSE r \in Remotes : r.env = 0 /\ r.components = {} /\ ~r.endpoint
    /\ remote0 = remote
    /\ platformJob = "none"
    /\ local = Local0

InitRegistrar ==
    /\ config \in Configs
    /\ pc = "get_ml_client"
    /\ error = "none"
    /\ calls = <<>>
    /\ remote \in Remotes
    /\ remote0 = remote
    /\ platformJob = "none"
    /\ local = Local0

Raise(exc) == pc' = "crashed" /\ error' = exc

\* lines 54-55: load_config, get_ml_client
get_ml_client ==
    /\ pc = "get_ml_client"
    /\ IF HasKeys(config, {"subscription_id", "resource_group", "workspace_name"})
       THEN pc' = "read_settings" /\ error' = error
       ELSE Raise("KeyError")
    /\ UNCHANGED <<config, calls, remote, remote0, platformJob, local>>
    /\ UNCHANGED scoVars

\* lines 58-59: cluster_name, experiment
read_settings ==
    /\ pc = "read_settings"
    /\ IF HasKeys(config, {"cluster", "experiment"})
       THEN pc' = "environments.get" /\ error' = error
       ELSE Raise("KeyError")
    /\ UNCHANGED <<config, calls, remote, remote0, platformJob, local>>
    /\ UNCHANGED scoVars

\* variant of environments_get that creates the environment whatever the get did
environments_get_always_create ==
    /\ pc = "environments.get"
    /\ \E res \in GetOutcomes(remote.env > 0) :
        /\ calls' = Append(calls, Call("environments.get", res))
        /\ local' = IF res = "ok" THEN [local EXCEPT !.env = remote.env] ELSE local
        /\ pc' = "environments.create_or_update"
    /\ UNCHANGED <<config, error, remote, remote0, platformJob>>
    /\ UNCHANGED scoVars

\* register_environment, line 29
environments_get ==
    /\ pc = "environments.get"
    /\ \E res \in GetOutcomes(remote.env > 0) :
        /\ calls' = Append(calls, Call("environments.get", res))
        /\ IF res = "ok"
           THEN /\ local' = [local EXCEPT !.env = remote.env]
                /\ pc' = "components.get.train"
           ELSE /\ local' = local
                /\ pc' = "environments.create_or_update"
    /\ UNCHANGED <<config, error, remote, remote0, platformJob>>
    /\ UNCHANGED scoVars

\* register_environment, lines 30-36
environments_create_or_update ==
    /\ pc = "environments.create_or_update"
    /\ \E res \in CallOutcomes :
        /\ calls' = Append(calls, Call("environments.create_or_update", res))
        /\ IF res = "ok"
           THEN /\ remote' = [remote EXCEPT !.env = @ + 1]
                /\ local' = [local EXCEPT !.env = remote.env + 1]
                /\ pc' = "components.get.train"
                /\ error' = error
           ELSE /\ UNCHANGED <<remote, local>>
                /\ Raise("RemoteError")
    /\ UNCHANGED <<config, remote0, platformJob>>
    /\ UNCHANGED scoVars

PcGet == [train |-> "components.get.train", score |-> "components.get.score"]
PcCreate == [train |-> "components.create_or_update.train",
             score |-> "components.create_or_update.score"]
PcAfter == [train |-> "components.get.score", score |-> "data.get"]

\* register_component, lines 43-45
components_get(which) ==
    /\ pc = PcGet[which]
    /\ \E res \in GetOutcomes(which \in remote.components) :
        /\ calls' = Append(calls, Call(PcGet[which], res))
        /\ IF res = "ok"
           THEN /\ local' = [local EXCEPT !.components = @ \cup {which}]
                /\ pc' = PcAfter[which]
           ELSE /\ local' = local
                /\ pc' = PcCreate[which]
    /\ UNCHANGED <<config, error, remote, remote0, platformJob>>
    /\ UNCHANGED scoVars

\* register_component, lines 46-47
components_create_or_update(which) ==
    /\ pc = PcCreate[which]
    /\ \E res \in CallOutcomes :
        /\ calls' = Append(calls, Call(PcCreate[which], res))
        /\ IF res = "ok"
           THEN /\ remote' = [remote EXCEPT !.components = @ \cup {which}]
                /\ local' = [local EXCEPT !.components = @ \cup {which}]
                /\ pc' = PcAfter[which]
                /\ error' = error
           ELSE /\ UNCHANGED <<remote, local>>
                /\ Raise("RemoteError")
    /\ UNCHANGED <<config, remote0, platformJob>>
    /\ UNCHANGED scoVars

\* line 69: config["datasource_name"], then data.get
data_get ==
    /\ pc = "data.get"
    /\ IF ~HasKeys(config, {"datasource_name"})
       THEN /\ Raise("KeyError")
            /\ UNCHANGED <<calls, local>>
       ELSE \E res \in CallOutcomes :
            /\ calls' = Append(calls, Call("data.get", res))
            /\ IF res = "ok"
               THEN /\ local' = [local EXCEPT !.data = TRUE]
                    /\ pc' = "jobs.create_or_update"
                    /\ error' = error
               ELSE /\ local' = local
                    /\ Raise("RemoteError")
    /\ UNCHANGED <<config, remote, remote0, platformJob>>
    /\ UNCHANGED scoVars

\* lines 81-86: the job object returned holds the status at submission
jobs_create_or_update ==
    /\ pc = "jobs.create_or_update"
    /\ \E res \in CallOutcomes :
        /\ calls' = Append(calls, Call("jobs.create_or_update", res))
        /\ IF res = "ok"
           THEN \E s \in JobStatuses :
                /\ platformJob' = s
                /\ local' = [local EXCEPT !.job_status = s]
                /\ pc' = "jobs.stream"
                /\ error' = error
           ELSE /\ UNCHANGED <<platformJob, local>>
                /\ Raise("RemoteError")
    /\ UNCHANGED <<config, remote, remote0>>
    /\ UNCHANGED scoVars

\* line 89: jobs.stream(job.name) returns when the job is in a terminal state;
\* it is given the name, the job object is not touched
jobs_stream ==
    /\ pc = "jobs.stream"
    /\ \E res \in CallOutcomes :
        /\ calls' = Append(calls, Call("jobs.stream", res))
        /\ IF res = "ok"
           THEN /\ \E t \in TerminalStatuses :
                    /\ platformJob \in TerminalStatuses => t = platformJob
                    /\ platformJob' = t
                /\ pc' = "check_status"
                /\ error' = error
           ELSE /\ UNCHANGED platformJob
                /\ Raise("RemoteError")
    /\ UNCHANGED <<config, remote, remote0, local>>
    /\ UNCHANGED scoVars

\* variant of check_status that stops only on the status "Failed"
check_status_only_failed ==
    /\ pc = "check_status"
    /\ IF local.job_status = "Failed"
       THEN pc' = "halted"
       ELSE pc' = "jobs.list"
    /\ UNCHANGED <<config, error, calls, remote, remote0, platformJob, local>>
    /\ UNCHANGED scoVars

\* lines 90-92
check_status ==
    /\ pc = "check_status"
    /\ IF local.job_status # "Completed"
       THEN pc' = "halted"
       ELSE pc' = "jobs.list"
    /\ UNCHANGED <<config, error, calls, remote, remote0, platformJob, local>>
    /\ UNCHANGED scoVars

\* lines 95-96
jobs_list ==
    /\ pc = "jobs.list"
    /\ \E res \in CallOutcomes :
        /\ calls' = Append(calls, Call("jobs.list", res))
        /\ IF res = "ok"
           THEN \E names \in ChildLists :
                LET child_jobs == ChildJobs(names)
                    sel == SelectTrainJob(child_jobs)
                IN  IF sel.raised
                    THEN /\ local' = [local EXCEPT !.child_jobs = child_jobs]
                         /\ Raise("IndexError")
                    ELSE /\ local' = [local EXCEPT !.child_jobs = child_jobs,
                                                   !.train_job = sel.job]
                         /\ pc' = "models.create_or_update"
                         /\ error' = error
           ELSE /\ local' = local
                /\ Raise("RemoteError")
    /\ UNCHANGED <<config, remote, remote0, platformJob>>
    /\ UNCHANGED scoVars

\* lines 98-103
models_create_or_update ==
    /\ pc = "models.create_or_update"
    /\ \E res \in CallOutcomes :
        /\ calls' = Append(calls, Call("models.create_or_update", res))
        /\ IF res = "ok"
           THEN /\ remote' = [remote EXCEPT !.models =
                       Append(@, [path |-> ModelPath(local.train_job.name),
                                  name |-> ModelName(config)])]
                /\ local' = [local EXCEPT !.model = Len(remote.models) + 1]
                /\ pc' = "batch_endpoints.get"
                /\ error' = error
           ELSE /\ UNCHANGED <<remote, local>>
                /\ Raise("RemoteError")
    /\ UNCHANGED <<config, remote0, platformJob>>
    /\ UNCHANGED scoVars

\* lines 118-119
batch_endpoints_get ==
    /\ pc = "batch_endpoints.get"
    /\ \E res \in GetOutcomes(remote.endpoint) :
        /\ calls' = Append(calls, Call("batch_endpoints.get", res))
        /\ IF res = "ok"
           THEN pc' = "components.create_or_update.scoring"
           ELSE pc' = "batch_endpoints.create"
    /\ UNCHANGED <<config, error, remote, remote0, platformJob, local>>
    /\ UNCHANGED scoVars

\* lines 120-122
batch_endpoints_create ==
    /\ pc = "batch_endpoints.create"
    /\ \E res \in CallOutcomes :
        /\ calls' = Append(calls, Call("batch_endpoints.create", res))
        /\ IF res = "ok"
           THEN /\ remote' = [remote EXCEPT !.endpoint = TRUE]
                /\ pc' = "components.create_or_update.scoring"
                /\ error' = error
           ELSE /\ remote' = remote
                /\ Raise("RemoteError")
    /\ UNCHANGED <<config, remote0, platformJob, local>>
    /\ UNCHANGED scoVars

\* variant of pipeline_component_create_or_update that deletes the endpoint
\* when the call raises
pipeline_component_create_or_rollback ==
    /\ pc = "components.create_or_update.scoring"
    /\ \E res \in CallOutcomes :
        /\ calls' = Append(calls, Call("components.create_or_update.scoring", res))
        /\ IF res = "ok"
           THEN /\ remote' = [remote EXCEPT !.pipeline_components = @ + 1]
                /\ local' = [local EXCEPT !.pipeline_component =
                                              remote.pipeline_components + 1]
                /\ pc' = "batch_deployments.create_or_update"
                /\ error' = error
           ELSE /\ remote' = [remote EXCEPT !.endpoint = FALSE]
                /\ local' = local
                /\ Raise("RemoteError")
    /\ UNCHANGED <<config, remote0, platformJob>>
    /\ UNCHANGED scoVars

\* line 126
pipeline_component_create_or_update ==
    /\ pc = "components.create_or_update.scoring"
    /\ \E res \in CallOutcomes :
        /\ calls' = Append(calls, Call("components.create_or_update.scoring", res))
        /\ IF res = "ok"
           THEN /\ remote' = [remote EXCEPT !.pipeline_components = @ + 1]
                /\ local' = [local EXCEPT !.pipeline_component =
                                              remote.pipeline_components + 1]
                /\ pc' = "batch_deployments.create_or_update"
                /\ error' = error
           ELSE /\ UNCHANGED <<remote, local>>
                /\ Raise("RemoteError")
    /\ UNCHANGED <<config, remote0, platformJob>>
    /\ UNCHANGED scoVars

\* variant of batch_deployments_create_or_update that creates the deployment
\* only when there is none
batch_deployments_create_if_absent ==
    /\ pc = "batch_deployments.create_or_update"
    /\ IF remote.deployment > 0
       THEN /\ pc' = "batch_endpoints.get_again"
            /\ UNCHANGED <<calls, remote, error>>
       ELSE \E res \in CallOutcomes :
            /\ calls' = Append(calls, Call("batch_deployments.create_or_update", res))
            /\ IF res = "ok"
               THEN /\ remote' = [remote EXCEPT !.deployment = @ + 1]
                    /\ pc' = "batch_endpoints.get_again"
                    /\ error' = error
               ELSE /\ remote' = remote
                    /\ Raise("RemoteError")
    /\ UNCHANGED <<config, remote0, platformJob, local>>
    /\ UNCHANGED scoVars

\* lines 127-133
batch_deployments_create_or_update ==
    /\ pc = "batch_deployments.create_or_update"
    /\ \E res \in CallOutcomes :
        /\ calls' = Append(calls, Call("batch_deployments.create_or_update", res))
        /\ IF res = "ok"
           THEN /\ remote' = [remote EXCEPT !.deployment = @ + 1]
                /\ pc' = "batch_endpoints.get_again"
                /\ error' = error
           ELSE /\ remote' = remote
                /\ Raise("RemoteError")
    /\ UNCHANGED <<config, remote0, platformJob, local>>
    /\ UNCHANGED scoVars

\* line 136
batch_endpoints_get_again ==
    /\ pc = "batch_endpoints.get_again"
    /\ \E res \in GetOutcomes(remote.endpoint) :
        /\ calls' = Append(calls, Call("batch_endpoints.get_again", res))
        /\ IF res = "ok"
           THEN pc' = "batch_endpoints.set_default" /\ error' = error
           ELSE Raise("RemoteError")
    /\ UNCHANGED <<config, remote, remote0, platformJob, local>>
    /\ UNCHANGED scoVars

\* lines 137-139
batch_endpoints_set_default ==
    /\ pc = "batch_endpoints.set_default"
    /\ \E res \in CallOutcomes :
        /\ calls' = Append(calls, Call("batch_endpoints.set_default", res))
        /\ IF res = "ok"
           THEN /\ remote' = [remote EXCEPT !.default = DeploymentName(config)]
                /\ pc' = "done"
                /\ error' = error
           ELSE /\ remote' = remote
                /\ Raise("RemoteError")
    /\ UNCHANGED <<config, remote0, platformJob, local>>
    /\ UNCHANGED scoVars

Next ==
    \/ get_ml_client
    \/ read_settings
    \/ environments_get
    \/ environments_create_or_update
    \/ components_get("train")
    \/ components_create_or_update("train")
    \/ components_get("score")
    \/ components_create_or_update("score")
    \/ data_get
    \/ jobs_create_or_update
    \/ jobs_stream
    \/ check_status
    \/ jobs_list
    \/ models_create_or_update
    \/ batch_endpoints_get
    \/ batch_endpoints_create
    \/ pipeline_component_create_or_update
    \/ batch_deployments_create_or_update
    \/ batch_endpoints_get_again
    \/ batch_endpoints_set_default

(***************************************************************************)
(*                           THE BATCH SCORER                              *)
(***************************************************************************)
CsvSuffix == <<".","c","s","v">>

InputDir == <<"i","n">>
SubDir == <<"s","u","b">>
ACsv == <<"a",".","c","s","v">>
BCsv == <<"b",".","c","s","v">>
PCsv == <<"p",".","c","s","v">>
UpperCsv == <<"c",".","C","S","V">>
NTxt == <<"n",".","t","x","t">>
DCsv == <<"d",".","c","s","v">>

\* names an entry of the input directory may have
EntryNames == {ACsv, BCsv, PCsv, UpperCsv, NTxt, SubDir, DCsv}
\* the entries that are directories; sub holds a file a.csv
DirNames == {SubDir, DCsv}
\* the files whose header already has a column "prediction"
PredNames == {PCsv}

Range(s) == {s[i] : i \in 1..Len(s)}

\* os.listdir results: distinct names, in listing order
Listings ==
    {l \in UNION {[1..n -> EntryNames] : n \in 0..MaxEntries} :
        \A i, j \in 1..Len(l) : i # j => l[i] # l[j]}

\* what --input_data, --model_path point to
ScorerArgs ==
    {[input_kind |-> "dir", input_data |-> <<InputDir>>, listing |-> l,
      rows |-> m, model_ok |-> ok] :
        l \in Listings, m \in 0..MaxRows, ok \in BOOLEAN}
    \cup
    {[input_kind |-> k, input_data |-> <<n>>, listing |-> <<>>,
      rows |-> m, model_ok |-> ok] :
        k \in {"file", "missing"}, n \in {ACsv, PCsv, NTxt},
        m \in 0..MaxRows, ok \in BOOLEAN}

\* os.path.join(path, f)
Join(path, f) == Append(path, f)

Basename(path) == path[Len(path)]

\* os.path.isdir(path)
IsDir(a, path) ==
    \/ a.input_kind = "dir" /\ path = a.input_data
    \/ /\ a.input_kind = "dir"
       /\ Len(path) = 2
       /\ path[1] = InputDir
       /\ path[2] \in Range(a.listing) \cap DirNames

\* whether path is a regular file
IsFile(a, path) ==
    \/ a.input_kind = "file" /\ path = a.input_data
    \/ /\ a.input_kind = "dir"
       /\ Len(path) = 2
       /\ path[1] = InputDir
       /\ path[2] \in Range(a.listing) \ DirNames
    \/ /\ a.input_kind = "dir"
       /\ path = <<InputDir, SubDir, ACsv>>
       /\ SubDir \in Range(a.listing)

NaN == [kind |-> "NaN", file |-> <<>>, row |-> 0]
Cell(kind, path, r) == [kind |-> kind, file |-> path, row |-> r]

\* pd.read_csv(file) of a regular file: a.rows rows, a column x and, for some
\* files, a column prediction
ReadCsv(a, path) ==
    LET cols == IF Basename(path) \in PredNames
                THEN <<"x", "prediction">> ELSE <<"x">>
    IN  [columns |-> cols,
         rows |-> [r \in 1..a.rows |->
                     [c \in Range(cols) |->
                        IF c = "x" THEN Cell("x", path, r) ELSE Cell("old", path, r)]]]

\* model.predict(df): one prediction per row, a function of the row's features
Predict(df) ==
    [i \in 1..Len(df.rows) |->
        Cell("yhat", df.rows[i]["x"].file, df.rows[i]["x"].row)]

\* df[col] = values: replaces the column when it exists, appends it otherwise
SetColumn(df, col, values) ==
    LET cols == IF col \in Range(df.columns) THEN df.columns
                ELSE Append(df.columns, col)
    IN  [columns |-> cols,
         rows |-> [i \in 1..Len(df.rows) |->
                     [c \in Range(cols) |->
                        IF c = col THEN values[i] ELSE df.rows[i][c]]]]

RECURSIVE UnionColumns(_)
\* the columns of pd.concat: in order of first appearance
UnionColumns(dfs) ==
    IF Len(dfs) = 0 THEN <<>>
    ELSE LET head == UnionColumns(SubSeq(dfs, 1, Len(dfs) - 1))
             last == dfs[Len(dfs)].columns
         IN  head \o SelectSeq(last, LAMBDA c : c \notin Range(head))

RECURSIVE ConcatRows(_, _)
ConcatRows(dfs, cols) ==
    IF Len(dfs) = 0 THEN <<>>
    ELSE LET df == dfs[Len(dfs)]
         IN  ConcatRows(SubSeq(dfs, 1, Len(dfs) - 1), cols) \o
             [i \in 1..Len(df.rows) |->
                [c \in Range(cols) |->
                   IF c \in Range(df.columns) THEN df.rows[i][c] ELSE NaN]]

\* variant of Concat that puts the frames in the opposite order
Concat_reversed(dfs) ==
    LET rev == [i \in 1..Len(dfs) |-> dfs[Len(dfs) + 1 - i]]
        cols == UnionColumns(rev)
    IN  [columns |-> cols, rows |-> ConcatRows(rev, cols)]

\* pd.concat(results, ignore_index=True)
Concat(dfs) ==
    LET cols == UnionColumns(dfs)
    IN  [columns |-> cols, rows |-> ConcatRows(dfs, cols)]

OutputFile == "scored_results.csv"

ScoIdle ==
    /\ args = [input_kind |-> "missing", input_data |-> <<ACsv>>, listing |-> <<>>,
               rows |-> 0, model_ok |-> FALSE]
    /\ spc = "idle"
    /\ serror = "none"
    /\ files = <<>>
    /\ results = <<>>
    /\ reads = <<>>
    /\ predicts = 0
    /\ outfs = [makedirs |-> 0, written |-> {}]
    /\ console = <<>>

InitScorer ==
    /\ args \in ScorerArgs
    /\ spc = "load_model"
    /\ serror = "none"
    /\ files = <<>>
    /\ results = <<>>
    /\ reads = <<>>
    /\ predicts = 0
    /\ outfs = [makedirs |-> 0, written |-> {}]
    /\ console = <<>>

\* lines 14-26
load_model ==
    /\ spc = "load_model"
    /\ IF args.model_ok
       THEN /\ spc' = "list_files"
            /\ console' = Append(console, "Model loaded")
            /\ serror' = serror
       ELSE /\ spc' = "crashed"
            /\ serror' = "LoadError"
            /\ console' = console
    /\ UNCHANGED <<args, files, results, reads, predicts, outfs>>
    /\ UNCHANGED regVars

\* variant of CsvEntries that ignores the case of the extension
CsvEntries_any_case(a) == SelectSeq(a.listing, LAMBDA f : EndsWith(Lower(f), CsvSuffix))

\* the .csv entries of the directory, in listing order
CsvEntries(a) == SelectSeq(a.listing, LAMBDA f : EndsWith(f, CsvSuffix))

\* lines 29-32
InputFiles(a) ==
    IF IsDir(a, a.input_data)
    THEN LET names == CsvEntries(a)
         IN  [i \in 1..Len(names) |-> Join(a.input_data, names[i])]
    ELSE <<a.input_data>>

list_files ==
    /\ spc = "list_files"
    /\ files' = InputFiles(args)
    /\ spc' = "process"
    /\ UNCHANGED <<args, serror, results, reads, predicts, outfs, console>>
    /\ UNCHANGED regVars

\* lines 36-46: one iteration of the loop
process_file ==
    /\ spc = "process"
    /\ Len(results) < Len(files)
    /\ LET file == files[Len(results) + 1]
       IN  /\ reads' = Append(reads, file)
           /\ IF IsFile(args, file)
              THEN LET df == ReadCsv(args, file)
                       predictions == Predict(df)
                   IN  /\ predicts' = predicts + 1
                       /\ results' = Append(results, SetColumn(df, "prediction", predictions))
                       /\ UNCHANGED <<spc, serror>>
              ELSE /\ spc' = "crashed"
                   /\ serror' = "ReadError"
                   /\ UNCHANGED <<predicts, results>>
    /\ UNCHANGED <<args, files, outfs, console>>
    /\ UNCHANGED regVars

\* variant of save_results that creates the output directory before the test
save_results_makedirs_first ==
    /\ spc = "process"
    /\ Len(results) = Len(files)
    /\ IF Len(results) > 0
       THEN /\ outfs' = [makedirs |-> outfs.makedirs + 1,
                         written |-> outfs.written \cup
                            {[name |-> OutputFile, data |-> Concat(results)]}]
            /\ console' = Append(console, "Results saved")
       ELSE /\ outfs' = [outfs EXCEPT !.makedirs = @ + 1]
            /\ console' = Append(console, "No results to save")
    /\ spc' = "done"
    /\ UNCHANGED <<args, serror, files, results, reads, predicts>>
    /\ UNCHANGED regVars

\* lines 49-56
save_results ==
    /\ spc = "process"
    /\ Len(results) = Len(files)
    /\ IF Len(results) > 0
       THEN /\ outfs' = [makedirs |-> outfs.makedirs + 1,
                         written |-> outfs.written \cup
                            {[name |-> OutputFile, data |-> Concat(results)]}]
            /\ console' = Append(console, "Results saved")
       ELSE /\ outfs' = outfs
            /\ console' = Append(console, "No results to save")
    /\ spc' = "done"
    /\ UNCHANGED <<args, serror, files, results, reads, predicts>>
    /\ UNCHANGED regVars

ScorerNext ==
    \/ load_model
    \/ list_files
    \/ process_file
    \/ save_results

(***************************************************************************)
(* The two programs do not interact: each is checked on its own.           *)
(***************************************************************************)
Init == InitRegistrar /\ ScoIdle
Spec == Init /\ [][Next]_vars

ScorerInit == InitScorer /\ RegIdle
SpecScorer == ScorerInit /\ [][ScorerNext]_vars

(***************************************************************************)
(*                     PROPERTIES OF THE REGISTRAR                         *)
(***************************************************************************)
Finished == pc \in {"done", "halted", "crashed"}

Issued(op, res) == \E i \in 1..Len(calls) : calls[i] = Call(op, res)
IssuedOp(op) == \E i \in 1..Len(calls) : calls[i].op = op
LastCall == IF calls = <<>> THEN Call("none", "none") ELSE calls[Len(calls)]
Count(op) == Cardinality({i \in 1..Len(calls) : calls[i].op = op})

\* the remote calls main() issues after the status test
PostStreamOps == {"jobs.list", "models.create_or_update", "batch_endpoints.get",
                  "batch_endpoints.create", "components.create_or_update.scoring",
                  "batch_deployments.create_or_update", "batch_endpoints.get_again",
                  "batch_endpoints.set_default"}

\* C1: when the stream wait has returned and the training job's terminal status
\* is not "Completed", main() is at the status test or has returned from it: no
\* child-job listing, model registration, endpoint get/create,
\* scoring-component creation, deployment creation or default update is issued.
C1_HaltsWhenJobNotCompleted ==
    (Issued("jobs.stream", "ok") /\ platformJob # "Completed") =>
        /\ pc \in {"check_status", "halted"}
        /\ \A op \in PostStreamOps : ~IssuedOp(op)
        /\ remote.models = <<>>
        /\ remote.deployment = remote0.deployment
        /\ remote.default = remote0.default

C1_Witness ==
    /\ pc = "halted"
    /\ platformJob = "Failed"
    /\ local.job_status = "Running"

\* get-or-create of one resource: after a get that returned nothing is created
\* and the fetched resource is returned; after a get that raised exactly one
\* create_or_update is issued and, when it returns, its result is returned.
GetOrCreate(getOp, createOp, pcCreate, fetched, created, unchanged) ==
    /\ Count(getOp) <= 1
    /\ Count(createOp) <= 1
    /\ Issued(getOp, "ok") => Count(createOp) = 0 /\ fetched /\ unchanged
    /\ (Issued(getOp, "raise") /\ pc # pcCreate) => Count(createOp) = 1
    /\ IssuedOp(createOp) => Issued(getOp, "raise")
    /\ Issued(createOp, "ok") => created
    /\ Issued(createOp, "raise") => pc = "crashed" /\ unchanged

C3_KeyErrorBeforeAnyRemoteCall ==
    (DOMAIN config # RequiredKeys) =>
        /\ calls = <<>>
        /\ Finished => error = "KeyError"

\* C7: when the training job ended "Completed" and no call raised out of
\* main(), main() ends having set the endpoint's default deployment.
C7_CompletedJobIsPublished ==
    (Issued("jobs.stream", "ok") /\ platformJob = "Completed"
        /\ Finished /\ pc # "crashed") =>
        /\ pc = "done"
        /\ remote.default = DeploymentName(config)

\* C8 as stated: the endpoint and the deployment are each created only if
\* absent.
C8_CreatedOnlyIfAbsent ==
    /\ IssuedOp("batch_endpoints.create") => Issued("batch_endpoints.get", "raise")
    /\ IssuedOp("batch_deployments.create_or_update") => remote0.deployment = 0

PastDeployment == pc \in {"batch_endpoints.get_again", "batch_endpoints.set_default", "done"}

\* C8 amended: the endpoint create call is issued exactly when the endpoint
\* lookup raised; the deployment is not looked up: its create_or_update is
\* issued once whenever main() gets there, also over an existing deployment.
C8_EndpointIfLookupFailsDeploymentAlways ==
    /\ Count("batch_endpoints.create") <= 1
    /\ Issued("batch_endpoints.get", "ok") => ~IssuedOp("batch_endpoints.create")
    /\ IssuedOp("batch_endpoints.create") => Issued("batch_endpoints.get", "raise")
    /\ (Issued("batch_endpoints.get", "raise") /\ pc # "batch_endpoints.create")
            => Count("batch_endpoints.create") = 1
    /\ PastDeployment =>
        /\ Issued("batch_deployments.create_or_update", "ok")
        /\ Count("batch_deployments.create_or_update") = 1
        /\ remote.deployment = remote0.deployment + 1
    /\ (pc = "crashed" /\ LastCall.op \in
            {"batch_endpoints.get_again", "batch_endpoints.set_default"})
            => Count("batch_deployments.create_or_update") = 1

C8_Witness ==
    /\ remote0.deployment = 1
    /\ Issued("batch_endpoints.get", "ok")
    /\ Issued("batch_deployments.create_or_update", "ok")
    /\ remote.deployment = 2
    /\ pc = "done"

\* the display names whose lower-cased form contains "train_job"
MatchingDisplayNames ==
    {<<"t","r","a","i","n","_","j","o","b">>,
     <<"m","y","_","T","r","a","i","n","_","J","o","b","_","2">>}

\* child k is the first matching child, or the first child when none matches
IsSelection(children, k) ==
    /\ k \in 1..Len(children)
    /\ \/ /\ children[k].display_name \in MatchingDisplayNames
          /\ \A j \in 1..(k - 1) : children[j].display_name \notin MatchingDisplayNames
       \/ /\ k = 1
          /\ \A j \in 1..Len(children) : children[j].display_name \notin MatchingDisplayNames

Selected ==
    /\ \E k \in 1..Len(local.child_jobs) :
          /\ IsSelection(local.child_jobs, k)
          /\ local.train_job = local.child_jobs[k]
    /\ error # "IndexError"
    /\ \A i \in 1..Len(remote.models) :
          remote.models[i].path = ModelPath(local.train_job.name)
    /\ pc \in {"batch_endpoints.get", "batch_endpoints.create",
               "components.create_or_update.scoring",
               "batch_deployments.create_or_update", "batch_endpoints.get_again",
               "batch_endpoints.set_default", "done"} => Len(remote.models) = 1

\* C9 as stated: for every list of children returned, the empty one included,
\* the first matching child, else the first child, is selected and the model's
\* path is built from its name.
C9_SelectsForEveryList ==
    Issued("jobs.list", "ok") => Selected

\* C9 amended: for every non-empty list the first matching child, else the first
\* child, is selected and the model's path is built from its name; for the empty
\* list main() ends with an IndexError and registers no model.
C9_SelectsForNonEmptyList ==
    Issued("jobs.list", "ok") =>
        IF Len(local.child_jobs) > 0
        THEN Selected
        ELSE /\ pc = "crashed"
             /\ error = "IndexError"
             /\ remote.models = <<>>
             /\ ~IssuedOp("models.create_or_update")

C9_Witness ==
    /\ Len(local.child_jobs) = 2
    /\ local.child_jobs[1].display_name = <<"t","r","a","i","n">>
    /\ local.child_jobs[2].display_name =
            <<"m","y","_","T","r","a","i","n","_","J","o","b","_","2">>
    /\ Len(remote.models) = 1
    /\ remote.models[1].path.job = 2

\* the remote mutations of deployment publication, in the order of the code
PublishMutations == <<"batch_endpoints.create", "components.create_or_update.scoring",
                      "batch_deployments.create_or_update", "batch_endpoints.set_default">>

IsPublishMutation(c) == \E i \in 1..Len(PublishMutations) : PublishMutations[i] = c.op

IsPrefix(s, t) == Len(s) <= Len(t) /\ SubSeq(t, 1, Len(s)) = s

MutationOps == LET m == SelectSeq(calls, IsPublishMutation)
               IN  [i \in 1..Len(m) |-> m[i].op]

CaughtGets == {"environments.get", "components.get.train", "components.get.score",
               "batch_endpoints.get"}

PublishOrder ==
    /\ \/ IsPrefix(MutationOps, PublishMutations)
       \/ IsPrefix(MutationOps, Tail(PublishMutations))
    /\ (MutationOps # <<>> /\ MutationOps[1] = "batch_endpoints.create")
            <=> IssuedOp("batch_endpoints.create")
    /\ IssuedOp("batch_endpoints.create") => Issued("batch_endpoints.get", "raise")
    /\ \A i \in 1..Len(calls) :
          (calls[i].res = "raise" /\ calls[i].op \notin CaughtGets)
              => i = Len(calls) /\ pc = "crashed"

NothingRemoved ==
    /\ remote'.env >= remote.env
    /\ remote.components \subseteq remote'.components
    /\ IsPrefix(remote.models, remote'.models)
    /\ remote'.pipeline_components >= remote.pipeline_components
    /\ remote.endpoint => remote'.endpoint
    /\ remote'.deployment >= remote.deployment

\* C10: the publication mutations are issued in the fixed order, each after the
\* one before it returned; a call that raises out of main() is the last call
\* issued; nothing is ever removed from the remote state, and after main() has
\* ended the remote state no longer changes.
C10_OrderedNoCompensation ==
    /\ []PublishOrder
    /\ [][NothingRemoved]_vars
    /\ [][Finished => (calls' = calls /\ remote' = remote)]_vars
    /\ [][(Len(calls') > Len(calls) /\ calls'[Len(calls')].res = "raise")
            => remote' = remote]_vars

C10_Witness ==
    /\ pc = "crashed"
    /\ LastCall = Call("batch_deployments.create_or_update", "raise")
    /\ Issued("batch_endpoints.create", "ok")
    /\ ~remote0.endpoint
    /\ remote.endpoint
    /\ Len(remote.models) = 1
    /\ remote.pipeline_components = 1

(***************************************************************************)
(*                       PROPERTIES OF THE SCORER                          *)
(***************************************************************************)
\* the entry names that end in ".csv"
CsvNames == {ACsv, BCsv, PCsv, DCsv}

\* the entries of the input directory named *.csv, in listing order
ExpNames == SelectSeq(args.listing, LAMBDA f : f \in CsvNames)
ExpPaths == [i \in 1..Len(ExpNames) |-> <<InputDir, ExpNames[i]>>]

\* the columns of the input files
InputColumns ==
    {"x"} \cup (IF \E i \in 1..Len(ExpNames) : ExpNames[i] \in PredNames
                THEN {"prediction"} ELSE {})

\* rows grouped per file in listing order, in their row order, each with the
\* prediction computed for it
RowsAsExpected(out) ==
    /\ Len(out.rows) = Len(ExpNames) * args.rows
    /\ \A k \in 1..Len(ExpNames) : \A r \in 1..args.rows :
          LET row == out.rows[(k - 1) * args.rows + r]
          IN  /\ row["x"] = Cell("x", ExpPaths[k], r)
              /\ row["prediction"] = Cell("yhat", ExpPaths[k], r)

OneAddedColumn(out) ==
    /\ Range(out.columns) \ InputColumns = {"prediction"}
    /\ Len(out.columns) = Cardinality(InputColumns) + 1

OneOutputFile ==
    /\ Cardinality(outfs.written) = 1
    /\ \A f \in outfs.written : f.name = OutputFile

\* C4 as stated: for a directory of N CSV files of M rows (N >= 1; N = 0 is
\* the case of C5) the scorer writes one file of N*M rows with exactly one added
\* column "prediction", rows in file order.
C4_OneFileOneAddedColumn ==
    (spc = "done" /\ args.input_kind = "dir" /\ Len(ExpNames) >= 1) =>
        /\ OneOutputFile
        /\ \A f \in outfs.written : RowsAsExpected(f.data) /\ OneAddedColumn(f.data)

\* C4 amended: for a directory of N >= 1 CSV files of M rows the scorer writes
\* one file of N*M rows, rows grouped per file in listing order and in row order
\* with their predictions; its columns are x and prediction: prediction is one
\* added column when no input has it, and the input's column overwritten (none
\* added) when an input has it.
C4_OneFileRowsInOrder ==
    (spc = "done" /\ args.input_kind = "dir" /\ Len(ExpNames) >= 1) =>
        /\ OneOutputFile
        /\ outfs.makedirs = 1
        /\ \A f \in outfs.written :
            /\ RowsAsExpected(f.data)
            /\ f.data.columns = <<"x", "prediction">>
            /\ "prediction" \notin InputColumns <=> OneAddedColumn(f.data)

C4_Witness ==
    /\ spc = "done"
    /\ args.input_kind = "dir"
    /\ ExpNames = <<BCsv, ACsv>>
    /\ NTxt \in Range(args.listing)
    /\ args.rows = 2
    /\ \E f \in outfs.written : Len(f.data.rows) = 4 /\ OneAddedColumn(f.data)

\* C5: for a directory without an entry named *.csv the scorer reads no file,
\* never calls predict, creates neither the output directory nor a file, and
\* ends with the warning "No results to save".
C5_NoCsvNoOutput ==
    (args.input_kind = "dir" /\ ExpNames = <<>>) =>
        /\ reads = <<>>
        /\ predicts = 0
        /\ outfs = [makedirs |-> 0, written |-> {}]
        /\ serror # "ReadError"
        /\ "Results saved" \notin Range(console)
        /\ spc = "done" => console[Len(console)] = "No results to save"

C5_Witness ==
    /\ spc = "done"
    /\ args.input_kind = "dir"
    /\ {UpperCsv, SubDir, NTxt} \subseteq Range(args.listing)
    /\ console[Len(console)] = "No results to save"

ExpectedReads == IF args.input_kind = "dir" THEN ExpPaths ELSE <<args.input_data>>

\* C6: the files read are fixed by the input path: the path itself when it is
\* not a directory, else its direct entries named *.csv, each once and in
\* listing order; nothing else is read, and predict is called once per file
\* read.
C6_ProcessesExactlyTheInputFiles ==
    /\ IsPrefix(reads, ExpectedReads)
    /\ predicts = Len(results)
    /\ predicts = IF serror = "ReadError" THEN Len(reads) - 1 ELSE Len(reads)
    /\ spc = "done" => reads = ExpectedReads

C6_Witness ==
    /\ spc = "done"
    /\ args.input_kind = "dir"
    /\ {UpperCsv, SubDir} \subseteq Range(args.listing)
    /\ reads = << <<InputDir, ACsv>> >>
    /\ predicts = 1

====
